---- MODULE Spec2Model ----
(***************************************************************************)
(* Model of pkg/mounter/safe_mounter_windows.go (csi-driver-smb): the      *)
(* CSIProxyMounter, which turns mount-interface calls into requests to the *)
(* privileged helper service (csi-proxy).                                  *)
(*                                                                         *)
(* Strings are sequences of one-character strings, so that the string      *)
(* functions of the code (Replace, HasPrefix, HasSuffix, FieldsFunc,       *)
(* filepath.Dir) are computed character by character as the code does.     *)
(***************************************************************************)
EXTENDS Integers, Sequences, FiniteSets, TLC

(***************************************************************************)
(* Bounds of the model.                                                    *)
(***************************************************************************)
\* Longest mountOptions / sensitiveMountOptions sequence the callers pass.
MaxOptLen == 2
\* The counter of completed mount/unmount cycles saturates here.
MaxCycles == 2
\* Longest path string given to normalizeWindowsPath on its own.
MaxPathLen == 4
\* Most requests of other callers that the helper serves while one call of
\* the mounter is in progress.
MaxMeanwhile == 1

(***************************************************************************)
(* Go's strings package, on sequences of characters.                       *)
(***************************************************************************)
\* The count arguments the code passes to strings.Replace.
ReplaceFirstOnly == 1
ReplaceEvery == -1

HasPrefix(s, prefix) ==
    /\ Len(s) >= Len(prefix)
    /\ SubSeq(s, 1, Len(prefix)) = prefix

HasSuffix(s, suffix) ==
    /\ Len(s) >= Len(suffix)
    /\ SubSeq(s, Len(s) - Len(suffix) + 1, Len(s)) = suffix

\* strings.Replace(s, old, new, n) for a non-empty old: the first n
\* non-overlapping occurrences, left to right; every one when n < 0.
RECURSIVE Replace(_, _, _, _)
Replace(s, old, new, n) ==
    IF n = 0 \/ Len(s) < Len(old) THEN s
    ELSE IF SubSeq(s, 1, Len(old)) = old
         THEN new \o Replace(SubSeq(s, Len(old) + 1, Len(s)), old, new, n - 1)
         ELSE <<Head(s)>> \o Replace(Tail(s), old, new, n)

\* strings.Contains
Contains(s, sub) ==
    \E i \in 1..(Len(s) - Len(sub) + 1) : SubSeq(s, i, i + Len(sub) - 1) = sub

\* The characters of a string.
Chars(s) == {s[i] : i \in 1..Len(s)}

\* strings.FieldsFunc(s, f): the maximal runs of characters not satisfying f;
\* seps holds the characters of s that satisfy f.
FieldsFunc(s, seps) ==
    LET starts == {i \in 1..Len(s) : s[i] \notin seps /\ (i = 1 \/ s[i - 1] \in seps)}
        EndOf(i) == CHOOSE j \in i..Len(s) :
                        /\ \A k \in i..j : s[k] \notin seps
                        /\ (j = Len(s) \/ s[j + 1] \in seps)
        Nth(k) == CHOOSE i \in starts : Cardinality({j \in starts : j < i}) = k - 1
    IN  [k \in 1..Cardinality(starts) |-> SubSeq(s, Nth(k), EndOf(Nth(k)))]

RECURSIVE Join(_, _)
Join(elems, sep) ==
    IF elems = <<>> THEN <<>>
    ELSE IF Len(elems) = 1 THEN elems[1]
    ELSE elems[1] \o sep \o Join(Tail(elems), sep)

(***************************************************************************)
(* Go's path/filepath on Windows, as far as filepath.Dir needs it: volume  *)
(* names are a drive letter with its colon, or \\server\share.             *)
(***************************************************************************)
Separator == <<"\\">>

IsPathSeparator(c) == c = "\\" \/ c = "/"

IsLetter(c) ==
    c \in {"a", "b", "c", "d", "e", "f", "g", "h", "i", "j", "k", "l", "m",
           "n", "o", "p", "q", "r", "s", "t", "u", "v", "w", "x", "y", "z",
           "A", "B", "C", "D", "E", "F", "G", "H", "I", "J", "K", "L", "M",
           "N", "O", "P", "Q", "R", "S", "T", "U", "V", "W", "X", "Y", "Z"}

\* filepath.FromSlash
FromSlash(path) == Replace(path, <<"/">>, Separator, -1)

\* The UNC branch of volumeNameLen, for a path of five characters or more
\* that starts with two separators and then neither a separator nor a dot:
\* the server name runs to the first separator, the share name must follow
\* it at once and must not start with a dot, and runs to the next separator
\* or to the end.
uncVolumeNameLen(path) ==
    LET seps == {k \in 4..(Len(path) - 1) : IsPathSeparator(path[k])}
    IN  IF seps = {} THEN 0
        ELSE LET k == CHOOSE x \in seps : \A y \in seps : x <= y
                 later == {j \in (k + 2)..Len(path) : IsPathSeparator(path[j])}
             IN  IF IsPathSeparator(path[k + 1]) \/ path[k + 1] = "." THEN 0
                 ELSE IF later = {} THEN Len(path)
                 ELSE (CHOOSE x \in later : \A y \in later : x <= y) - 1

\* volumeNameLen: the length of the leading volume name.
volumeNameLen(path) ==
    IF Len(path) < 2 THEN 0
    ELSE IF path[2] = ":" /\ IsLetter(path[1]) THEN 2
    ELSE IF /\ Len(path) >= 5
            /\ IsPathSeparator(path[1])
            /\ IsPathSeparator(path[2])
            /\ ~IsPathSeparator(path[3])
            /\ path[3] # "."
         THEN uncVolumeNameLen(path)
    ELSE 0

VolumeName(path) == SubSeq(path, 1, volumeNameLen(path))

RECURSIVE CleanElems(_, _, _)
CleanElems(elems, out, rooted) ==
    IF elems = <<>> THEN out
    ELSE LET e == Head(elems)
             rest == Tail(elems)
         IN  IF e = <<".">> THEN CleanElems(rest, out, rooted)
             ELSE IF e = <<".", ".">>
                  THEN IF out # <<>> /\ out[Len(out)] # <<".", ".">>
                       THEN CleanElems(rest, SubSeq(out, 1, Len(out) - 1), rooted)
                       ELSE IF rooted THEN CleanElems(rest, out, rooted)
                       ELSE CleanElems(rest, Append(out, e), rooted)
                  ELSE CleanElems(rest, Append(out, e), rooted)

\* filepath.Clean: the volume name is kept as it is, the rest is cleaned
\* element by element, and the whole gets backslashes.
Clean(path) ==
    LET volLen == volumeNameLen(path)
        rest == SubSeq(path, volLen + 1, Len(path))
        rooted == IsPathSeparator(rest[1])
        out == CleanElems(FieldsFunc(rest, {c \in Chars(rest) : IsPathSeparator(c)}),
                          <<>>, rooted)
        buf == (IF rooted THEN Separator ELSE <<>>) \o Join(out, Separator)
    IN  IF rest = <<>>
        THEN IF volLen > 1 /\ IsPathSeparator(path[1]) /\ IsPathSeparator(path[2])
             THEN FromSlash(path)
             ELSE path \o <<".">>
        ELSE FromSlash(SubSeq(path, 1, volLen)
                         \o (IF buf = <<>> THEN <<".">> ELSE buf))

\* The index of the last path separator of path after its first n characters
\* (n when there is none): the loop of filepath.Dir.
RECURSIVE LastSeparator(_, _, _)
LastSeparator(path, n, i) ==
    IF i > n /\ ~IsPathSeparator(path[i]) THEN LastSeparator(path, n, i - 1) ELSE i

\* filepath.Dir
Dir(path) ==
    LET vol == VolumeName(path)
        i == LastSeparator(path, Len(vol), Len(path))
        dir == Clean(SubSeq(path, Len(vol) + 1, i))
    IN  IF dir = <<".">> /\ Len(vol) > 2 THEN vol ELSE vol \o dir

(***************************************************************************)
(* normalizeWindowsPath                                                    *)
(***************************************************************************)
DefaultDrive == <<"c", ":">>

\* normalizeWindowsPath as a slip would have it: only the first "/" is
\* replaced.
normalizeWindowsPathFirstSlash(path) ==
    LET normalizedPath == Replace(path, <<"/">>, <<"\\">>, ReplaceFirstOnly)
    IN  IF HasPrefix(normalizedPath, <<"\\">>)
        THEN DefaultDrive \o normalizedPath
        ELSE normalizedPath

normalizeWindowsPath(path) ==
    LET normalizedPath == Replace(path, <<"/">>, <<"\\">>, ReplaceEvery)
    IN  IF HasPrefix(normalizedPath, <<"\\">>)
        THEN DefaultDrive \o normalizedPath
        ELSE normalizedPath

(***************************************************************************)
(* The helper service (csi-proxy), seen through its request/response        *)
(* contract.  Its state: the directories that exist, the links (mount       *)
(* points, each with what it points to) and the SMB global mappings.        *)
(* Mapping-create is idempotent and makes the local path an existing mount *)
(* point; forced Rmdir removes a path with everything below it and is a     *)
(* no-op on a path that does not exist.                                     *)
(***************************************************************************)
Root == <<"c", ":", "\\">>

IsUnder(q, p) == q = p \/ HasPrefix(q, p \o Separator)

Ancestors(p) ==
    {SubSeq(p, 1, i - 1) : i \in {j \in 4..Len(p) : p[j] = "\\"}}
        \cup (IF HasPrefix(p, Root) THEN {Root} ELSE {})

HelperPathExists(h, p) == p \in h.dirs

HelperIsMountPoint(h, p) == \E l \in h.links : l[1] = p

HelperMkdir(h, p) == [h EXCEPT !.dirs = @ \cup {p} \cup Ancestors(p)]

HelperRmdir(h, p) ==
    [h EXCEPT !.dirs = {q \in @ : ~IsUnder(q, p)},
              !.links = {l \in @ : ~IsUnder(l[1], p)}]

HelperLinkPath(h, src, tgt) ==
    [h EXCEPT !.dirs = @ \cup {tgt},
              !.links = {l \in @ : l[1] # tgt} \cup {<<tgt, src>>}]

HelperNewSmbGlobalMapping(h, local, remote) ==
    [h EXCEPT !.dirs = @ \cup {local},
              !.links = {l \in @ : l[1] # local} \cup {<<local, remote>>},
              !.mappings = @ \cup {remote}]

(***************************************************************************)
(* The places of a call that sends more than one request.  The mounter     *)
(* holds no lock and the helper serves one request at a time, so between   *)
(* two requests of one call, and between its last request and its return,  *)
(* the helper serves the requests of other callers.  A call of SMBMount is *)
(* "checked" when PathExists has answered that the parent directory is     *)
(* missing, "made" when the parent directory is known or made, "resolved"  *)
(* when the resolver has answered for a cluster-internal host and the      *)
(* mapping comes next, "mapped" when the mapping request has been answered *)
(* and the call has yet to return.  A call of IsLikelyNotMountPoint is at  *)
(* "exists" when PathExists has answered true.                             *)
(***************************************************************************)
InProgress == {"checked", "made", "resolved", "mapped", "exists"}

(***************************************************************************)
(* The requests of the helper's filesystem and SMB clients.                *)
(***************************************************************************)
PathExistsRequest(p) == [kind |-> "PathExists", path |-> p]

MkdirRequest(p, ctx) == [kind |-> "Mkdir", path |-> p, context |-> ctx]

RmdirRequest(p, ctx, force) ==
    [kind |-> "Rmdir", path |-> p, context |-> ctx, force |-> force]

IsMountPointRequest(p) == [kind |-> "IsMountPoint", path |-> p]

LinkPathRequest(src, tgt) ==
    [kind |-> "LinkPath", sourcePath |-> src, targetPath |-> tgt]

NewSmbGlobalMappingRequest(local, remote, user, pass) ==
    [kind |-> "NewSmbGlobalMapping", localPath |-> local, remotePath |-> remote,
     username |-> user, password |-> pass]

\* The requests of one kind in a sequence of requests.
OfKind(calls, k) == {i \in 1..Len(calls) : calls[i].kind = k}

\* What the helper does with a request: the requests that only ask change
\* nothing.
Serve(h, req) ==
    CASE req.kind = "Mkdir" -> HelperMkdir(h, req.path)
      [] req.kind = "Rmdir" -> HelperRmdir(h, req.path)
      [] req.kind = "LinkPath" -> HelperLinkPath(h, req.sourcePath, req.targetPath)
      [] req.kind = "NewSmbGlobalMapping" ->
             HelperNewSmbGlobalMapping(h, req.localPath, req.remotePath)
      [] OTHER -> h

(***************************************************************************)
(* The state of the node and of the caller.                                *)
(***************************************************************************)
VARIABLES
    helper,     \* the helper service's state: [dirs, links, mappings]
    dns,        \* what the resolver answers for a cluster-internal name
    pc,         \* "idle", a place of the call in progress, or "returned"
    last,       \* the call in progress or just returned, with its outcome
    cycles,     \* the mounts that SMBUnmount has undone, in a run that counts them
    arg,        \* the path of a run that works on one path only
    res         \* the results that such a run has got for arg so far

(***************************************************************************)
(* The methods of CSIProxyMounter.  A method that sends one request at     *)
(* most takes the helper's state h and gives the outcome of the call: err  *)
(* (the kind of error returned, "nil" for none), ret (the boolean          *)
(* returned, when there is one), calls (the requests sent to the helper,   *)
(* in order) and fs (the helper's state afterwards).  A method that sends  *)
(* more is given piece by piece, each piece from one place of the call to  *)
(* the next with the one request it sends, and says where the call is then *)
(* (to); the method in one piece is the call with no request of another    *)
(* caller served between its own.  A helper request fails when the         *)
(* environment says so.                                                    *)
(***************************************************************************)
Outcome(err, ret, calls, fs) ==
    [err |-> err, ret |-> ret, calls |-> calls, fs |-> fs]

ExistsPath(h, path, fail) ==
    LET p == normalizeWindowsPath(path)
    IN  IF fail
        THEN Outcome("HelperError", FALSE, <<PathExistsRequest(p)>>, h)
        ELSE Outcome("nil", HelperPathExists(h, p), <<PathExistsRequest(p)>>, h)

\* MakeDir as a slip would have it: the directory is created in the context
\* that Rmdir uses.
MakeDirPodContext(h, path, fail) ==
    LET p == normalizeWindowsPath(path)
        mkdirReq == MkdirRequest(p, "POD")
    IN  IF fail
        THEN Outcome("HelperError", FALSE, <<mkdirReq>>, h)
        ELSE Outcome("nil", FALSE, <<mkdirReq>>, HelperMkdir(h, p))

MakeDir(h, path, fail) ==
    LET p == normalizeWindowsPath(path)
        mkdirReq == MkdirRequest(p, "PLUGIN")
    IN  IF fail
        THEN Outcome("HelperError", FALSE, <<mkdirReq>>, h)
        ELSE Outcome("nil", FALSE, <<mkdirReq>>, HelperMkdir(h, p))

\* Rmdir as a slip would have it: the path goes to the helper as the caller
\* gave it.
RmdirUnnormalized(h, path, fail) ==
    LET rmdirRequest == RmdirRequest(path, "POD", TRUE)
    IN  IF fail
        THEN Outcome("HelperError", FALSE, <<rmdirRequest>>, h)
        ELSE Outcome("nil", FALSE, <<rmdirRequest>>, HelperRmdir(h, path))

Rmdir(h, path, fail) ==
    LET p == normalizeWindowsPath(path)
        rmdirRequest == RmdirRequest(p, "POD", TRUE)
    IN  IF fail
        THEN Outcome("HelperError", FALSE, <<rmdirRequest>>, h)
        ELSE Outcome("nil", FALSE, <<rmdirRequest>>, HelperRmdir(h, p))

Unmount(h, target, fail) == Rmdir(h, target, fail)

\* SMBUnmount as a slip would have it: nothing is removed.
SMBUnmountNoRmdir(h, target, fail) == Outcome("nil", FALSE, <<>>, h)

\* SMBUnmount as a slip would have it: the path is checked first, and a
\* missing path is an error.
SMBUnmountWithPrecheck(h, target, fail) ==
    LET ex == ExistsPath(h, target, FALSE)
        rm == Rmdir(h, target, fail)
    IN  IF ~ex.ret THEN Outcome("NotFound", FALSE, ex.calls, h)
        ELSE Outcome(rm.err, FALSE, ex.calls \o rm.calls, rm.fs)

\* SMBUnmount as the TODO of line 103 would have it: the mapping that the
\* target points to is removed with the directory.
SMBUnmountRemovesMapping(h, target, fail) ==
    LET rm == Rmdir(h, target, fail)
        gone == {l[2] : l \in {k \in h.links : k[1] = normalizeWindowsPath(target)}}
    IN  IF fail THEN rm
        ELSE Outcome(rm.err, FALSE, rm.calls, [rm.fs EXCEPT !.mappings = @ \ gone])

SMBUnmount(h, target, fail) == Rmdir(h, target, fail)

\* Mount as the TODO of line 112 would have it: a call with an fstype is
\* turned down before anything is sent.
MountConfirmsFstype(h, source, target, fstype, options, fail) ==
    LET linkRequest == LinkPathRequest(normalizeWindowsPath(source),
                                       normalizeWindowsPath(target))
    IN  IF fstype # "" THEN Outcome("InvalidArgument", FALSE, <<>>, h)
        ELSE IF fail
        THEN Outcome("HelperError", FALSE, <<linkRequest>>, h)
        ELSE Outcome("nil", FALSE, <<linkRequest>>,
                     HelperLinkPath(h, linkRequest.sourcePath, linkRequest.targetPath))

Mount(h, source, target, fstype, options, fail) ==
    LET linkRequest == LinkPathRequest(normalizeWindowsPath(source),
                                       normalizeWindowsPath(target))
    IN  IF fail
        THEN Outcome("HelperError", FALSE, <<linkRequest>>, h)
        ELSE Outcome("nil", FALSE, <<linkRequest>>,
                     HelperLinkPath(h, linkRequest.sourcePath, linkRequest.targetPath))

\* A piece of a call: where the call is afterwards, and its outcome so far.
Step(to, err, ret, calls, fs) ==
    [to |-> to, err |-> err, ret |-> ret, calls |-> calls, fs |-> fs]

\* IsLikelyNotMountPoint as a slip would have it: the answer given last is
\* kept and given again, and the helper is asked only the first time.
IsLikelyNotMountPointStartCached(h, path, fail) ==
    LET ex == ExistsPath(h, path, fail)
    IN  IF Len(res) > 0
        THEN Step("returned", res[Len(res)].err, res[Len(res)].ret, <<>>, h)
        ELSE IF ex.err # "nil" THEN Step("returned", ex.err, FALSE, ex.calls, h)
        ELSE IF ~ex.ret THEN Step("returned", "NotFound", TRUE, ex.calls, h)
        ELSE Step("exists", "nil", FALSE, ex.calls, h)

\* Lines 165-171: the path is looked up; a failure and a missing path end
\* the call.
IsLikelyNotMountPointStart(h, path, fail) ==
    LET ex == ExistsPath(h, path, fail)
    IN  IF ex.err # "nil" THEN Step("returned", ex.err, FALSE, ex.calls, h)
        ELSE IF ~ex.ret THEN Step("returned", "NotFound", TRUE, ex.calls, h)
        ELSE Step("exists", "nil", FALSE, ex.calls, h)

\* IsLikelyNotMountPoint as a slip would have it: the answer is not negated.
IsLikelyNotMountPointAskUnnegated(h, path, fail) ==
    LET req == IsMountPointRequest(normalizeWindowsPath(path))
    IN  IF fail THEN Step("returned", "HelperError", FALSE, <<req>>, h)
        ELSE Step("returned", "nil", HelperIsMountPoint(h, req.path), <<req>>, h)

\* IsLikelyNotMountPoint as a slip would have it: when IsMountPoint fails,
\* the path is reported as likely not a mount point, with the error.
IsLikelyNotMountPointAskTrueOnError(h, path, fail) ==
    LET req == IsMountPointRequest(normalizeWindowsPath(path))
    IN  IF fail THEN Step("returned", "HelperError", TRUE, <<req>>, h)
        ELSE Step("returned", "nil", ~HelperIsMountPoint(h, req.path), <<req>>, h)

\* Lines 173-180: the helper is asked whether the path is a mount point, and
\* the negation of its answer is returned.
IsLikelyNotMountPointAsk(h, path, fail) ==
    LET req == IsMountPointRequest(normalizeWindowsPath(path))
    IN  IF fail THEN Step("returned", "HelperError", FALSE, <<req>>, h)
        ELSE Step("returned", "nil", ~HelperIsMountPoint(h, req.path), <<req>>, h)

\* Lines 163-181 in one piece; fault names the request that fails.
IsLikelyNotMountPoint(h, path, fault) ==
    LET start == IsLikelyNotMountPointStart(h, path, fault = "PathExists")
        ask == IsLikelyNotMountPointAsk(start.fs, path, fault = "IsMountPoint")
    IN  IF start.to = "returned"
        THEN Outcome(start.err, start.ret, start.calls, start.fs)
        ELSE Outcome(ask.err, ask.ret, start.calls \o ask.calls, ask.fs)

\* Split: the separators of the source's fields.
Split(r) == r = " " \/ r = "/"

ClusterSuffix ==
    <<"s", "v", "c", ".", "c", "l", "u", "s", "t", "e", "r", ".",
      "l", "o", "c", "a", "l">>

\* What net.ResolveIPAddr("ip4", host) gives: resolution failed, or the
\* address as ip.String() prints it.
Unresolved == <<>>

\* Line 75: the fields of the source, cut at the characters Split accepts.
SourceParts(source) == FieldsFunc(source, {r \in Chars(source) : Split(r)})

\* Line 76: the first field of the source ends with the cluster suffix.
HostIsClusterInternal(source) ==
    LET parts == SourceParts(source)
    IN  Len(parts) > 0 /\ HasSuffix(parts[1], ClusterSuffix)

\* ResolveSource as a slip would have it: every occurrence is replaced.
ResolveSourceEverywhere(source, addr) ==
    IF HostIsClusterInternal(source) /\ addr # Unresolved
    THEN Replace(source, SourceParts(source)[1], addr, ReplaceEvery)
    ELSE source

\* ResolveSource as a slip would have it: the else is missing, and a failed
\* resolution puts the nil address, printed "<nil>", in the source.
ResolveSourceWithoutElse(source, addr) ==
    IF HostIsClusterInternal(source)
    THEN Replace(source, SourceParts(source)[1],
                 IF addr = Unresolved THEN <<"<", "n", "i", "l", ">">> ELSE addr,
                 ReplaceFirstOnly)
    ELSE source

\* Lines 75-86: the source with the cluster-internal host name replaced by
\* its IPv4 address, when the name resolves (addr is the resolver's answer).
ResolveSource(source, addr) ==
    LET parts == SourceParts(source)
    IN  IF Len(parts) > 0 /\ HasSuffix(parts[1], ClusterSuffix)
        THEN LET domainName == parts[1]
             IN  IF addr = Unresolved THEN source
                 ELSE Replace(source, domainName, addr, ReplaceFirstOnly)
        ELSE source

\* SmbMountRequest as a slip would have it: the last option, not the first.
SmbMountRequestLastOption(source, target, mountOptions, sensitiveMountOptions) ==
    NewSmbGlobalMappingRequest(normalizeWindowsPath(target),
                               Replace(source, <<"/">>, <<"\\">>, ReplaceEvery),
                               mountOptions[Len(mountOptions)],
                               sensitiveMountOptions[Len(sensitiveMountOptions)])

\* SmbMountRequest as a slip would have it: the share is mapped to the
\* parent directory, the path that was checked and created.
SmbMountRequestAtParent(source, target, mountOptions, sensitiveMountOptions) ==
    NewSmbGlobalMappingRequest(normalizeWindowsPath(Dir(target)),
                               Replace(source, <<"/">>, <<"\\">>, ReplaceEvery),
                               mountOptions[1], sensitiveMountOptions[1])

\* Lines 88-94: the request, for a source already resolved.
SmbMountRequest(source, target, mountOptions, sensitiveMountOptions) ==
    NewSmbGlobalMappingRequest(normalizeWindowsPath(target),
                               Replace(source, <<"/">>, <<"\\">>, ReplaceEvery),
                               mountOptions[1], sensitiveMountOptions[1])

\* SMBMount as a slip would have it: the options are checked only after the
\* parent directory has been looked up.
SMBMountStartLateValidation(h, target, mountOptions, sensitiveMountOptions, fail) ==
    LET parentDir == Dir(target)
        ex == ExistsPath(h, parentDir, fail)
    IN  IF ex.err # "nil" THEN Step("returned", "PrecheckFailed", FALSE, ex.calls, h)
        ELSE IF Len(mountOptions) = 0 \/ Len(sensitiveMountOptions) = 0
             THEN Step("returned", "InvalidArgument", FALSE, ex.calls, h)
        ELSE Step(IF ex.ret THEN "made" ELSE "checked", "nil", FALSE, ex.calls, h)

\* SMBMount as a slip would have it: the parent directory is created
\* whether or not it exists.
SMBMountStartAlwaysMkdir(h, target, mountOptions, sensitiveMountOptions, fail) ==
    LET parentDir == Dir(target)
        ex == ExistsPath(h, parentDir, fail)
    IN  IF Len(mountOptions) = 0 \/ Len(sensitiveMountOptions) = 0
        THEN Step("returned", "InvalidArgument", FALSE, <<>>, h)
        ELSE IF ex.err # "nil"
             THEN Step("returned", "PrecheckFailed", FALSE, ex.calls, h)
        ELSE Step("checked", "nil", FALSE, ex.calls, h)

\* Lines 58-67: the options are checked and the parent directory is looked
\* up; the call goes on to create it when it is missing, to the mapping
\* when it is there.
SMBMountStart(h, target, mountOptions, sensitiveMountOptions, fail) ==
    LET parentDir == Dir(target)
        ex == ExistsPath(h, parentDir, fail)
    IN  IF Len(mountOptions) = 0 \/ Len(sensitiveMountOptions) = 0
        THEN Step("returned", "InvalidArgument", FALSE, <<>>, h)
        ELSE IF ex.err # "nil"
             THEN Step("returned", "PrecheckFailed", FALSE, ex.calls, h)
        ELSE Step(IF ex.ret THEN "made" ELSE "checked", "nil", FALSE, ex.calls, h)

\* SMBMount as a slip would have it: the error of MakeDir is dropped and the
\* mapping is requested all the same.
SMBMountParentIgnoresError(h, target, fail) ==
    LET mk == MakeDir(h, Dir(target), fail)
    IN  Step("made", "nil", FALSE, mk.calls, mk.fs)

\* Lines 68-73: the missing parent directory is created.
SMBMountParent(h, target, fail) ==
    LET mk == MakeDir(h, Dir(target), fail)
    IN  IF mk.err # "nil"
        THEN Step("returned", "PrerequisiteCreationFailed", FALSE, mk.calls, mk.fs)
        ELSE Step("made", "nil", FALSE, mk.calls, mk.fs)

\* SMBMount as a slip would have it: a failed mapping is rolled back, the
\* parent directory is removed again.
SMBMountMappingRollback(h, addr, source, target, mountOptions, sensitiveMountOptions, fail) ==
    LET req == SmbMountRequest(ResolveSource(source, addr), target,
                               mountOptions, sensitiveMountOptions)
        undo == Rmdir(h, Dir(target), FALSE)
    IN  IF fail
        THEN Step("mapped", "MountFailed", FALSE, <<req>> \o undo.calls, undo.fs)
        ELSE Step("mapped", "nil", FALSE, <<req>>,
                  HelperNewSmbGlobalMapping(h, req.localPath, req.remotePath))

\* Lines 84-97: the mapping is requested for the source, a cluster-internal
\* host name in it replaced as lines 75-86 do with the answer that the
\* resolver gave at line 79 (addr).
SMBMountMapping(h, addr, source, target, mountOptions, sensitiveMountOptions, fail) ==
    LET req == SmbMountRequest(ResolveSource(source, addr), target,
                               mountOptions, sensitiveMountOptions)
    IN  IF fail
        THEN Step("mapped", "MountFailed", FALSE, <<req>>, h)
        ELSE Step("mapped", "nil", FALSE, <<req>>,
                  HelperNewSmbGlobalMapping(h, req.localPath, req.remotePath))

\* Lines 55-99 in one piece, addr the resolver's answer at line 79; fault
\* names the request that fails.
SMBMount(h, addr, source, target, mountOptions, sensitiveMountOptions, fault) ==
    LET start == SMBMountStart(h, target, mountOptions, sensitiveMountOptions,
                               fault = "PathExists")
        parent == IF start.to = "checked"
                  THEN SMBMountParent(start.fs, target, fault = "Mkdir")
                  ELSE Step(start.to, "nil", FALSE, <<>>, start.fs)
        mapping == SMBMountMapping(parent.fs, addr, source, target, mountOptions,
                                   sensitiveMountOptions,
                                   fault = "NewSmbGlobalMapping")
    IN  IF start.to = "returned"
        THEN Outcome(start.err, FALSE, start.calls, start.fs)
        ELSE IF parent.to = "returned"
             THEN Outcome(parent.err, FALSE, start.calls \o parent.calls, parent.fs)
        ELSE Outcome(mapping.err, FALSE,
                     start.calls \o parent.calls \o mapping.calls, mapping.fs)

(***************************************************************************)
(* The methods of mount.Interface that CSIProxyMounter does not implement: *)
(* each returns an error saying so, and sends nothing to the helper.       *)
(***************************************************************************)
List(h) == Outcome("NotImplemented", FALSE, <<>>, h)

PathIsDevice(h, pathname) == Outcome("NotImplemented", FALSE, <<>>, h)

DeviceOpened(h, pathname) == Outcome("NotImplemented", FALSE, <<>>, h)

GetDeviceNameFromMount(h, mountPath, pluginMountDir) ==
    Outcome("NotImplemented", FALSE, <<>>, h)

MakeRShared(h, path) == Outcome("NotImplemented", FALSE, <<>>, h)

MakeFile(h, pathname) == Outcome("NotImplemented", FALSE, <<>>, h)

EvalHostSymlinks(h, pathname) == Outcome("NotImplemented", FALSE, <<>>, h)

GetMountRefs(h, pathname) == Outcome("NotImplemented", FALSE, <<>>, h)

GetFSGroup(h, pathname) == Outcome("NotImplemented", FALSE, <<>>, h)

GetSELinuxSupport(h, pathname) == Outcome("NotImplemented", FALSE, <<>>, h)

GetMode(h, pathname) == Outcome("NotImplemented", FALSE, <<>>, h)

\* MountSensitive as a slip would have it: the sensitive options are dropped
\* and the call is handed to Mount.
MountSensitiveViaMount(h, source, target, fstype, options, sensitiveOptions) ==
    Mount(h, source, target, fstype, options, FALSE)

MountSensitive(h, source, target, fstype, options, sensitiveOptions) ==
    Outcome("NotImplemented", FALSE, <<>>, h)

MountSensitiveWithoutSystemd(h, source, target, fstype, options, sensitiveOptions) ==
    Outcome("NotImplemented", FALSE, <<>>, h)

\* The unimplemented methods that take one path, and the call of one.
PathProbes ==
    {"PathIsDevice", "DeviceOpened", "GetDeviceNameFromMount", "MakeRShared",
     "MakeFile", "EvalHostSymlinks", "GetMountRefs", "GetFSGroup",
     "GetSELinuxSupport", "GetMode"}

PathProbe(op, h, path) ==
    CASE op = "PathIsDevice" -> PathIsDevice(h, path)
      [] op = "DeviceOpened" -> DeviceOpened(h, path)
      [] op = "GetDeviceNameFromMount" -> GetDeviceNameFromMount(h, path, Dir(path))
      [] op = "MakeRShared" -> MakeRShared(h, path)
      [] op = "MakeFile" -> MakeFile(h, path)
      [] op = "EvalHostSymlinks" -> EvalHostSymlinks(h, path)
      [] op = "GetMountRefs" -> GetMountRefs(h, path)
      [] op = "GetFSGroup" -> GetFSGroup(h, path)
      [] op = "GetSELinuxSupport" -> GetSELinuxSupport(h, path)
      [] op = "GetMode" -> GetMode(h, path)

(***************************************************************************)
(* The state machine.  A step is one piece of a call of a method: the call *)
(* up to its first wait for the helper's answer to be acted on, or from    *)
(* one place of the call to the next; a call that sends one request at     *)
(* most is one step.  While a call is in progress the helper serves the    *)
(* requests of other callers.  Between calls the environment changes the   *)
(* node too: directories are removed by hand, name resolution starts or    *)
(* stops working.                                                          *)
(***************************************************************************)
vars == <<helper, dns, pc, last, cycles, arg, res>>

\* What the calls of the mounter's methods leave alone.
aside == <<arg, res>>

\* The inputs of the calls.
\* The target of the mounts, and the directory that Mount links it to; the
\* paths of the calls that work on directories are these and their parent.
TargetSlash == <<"/", "m", "/", "s">>
Targets == {TargetSlash}
DirDrive == <<"c", ":", "\\", "m", "\\", "t">>
LinkSources == {DirDrive}
Paths == Targets \cup LinkSources \cup {<<"/", "m">>}

InternalHost == <<"a", ".">> \o ClusterSuffix
SourceExternal == <<"/", "/", "h", "/", "x">>
\* A share named after its cluster-internal server: the host name occurs twice.
SourceInternal == <<"/", "/">> \o InternalHost \o <<"/">> \o InternalHost
Sources == {SourceExternal, SourceInternal}

Address == <<"1", "0", ".", "0", ".", "0", ".", "7">>
Resolutions == {Unresolved, Address}

\* Option sequences: none, the credential alone, and the credential first of
\* MaxOptLen options.
OptionSeqs(first, other) ==
    {<<>>} \cup {<<first>> \o [i \in 1..(n - 1) |-> other] : n \in {1, MaxOptLen}}
MountOptionSeqs == OptionSeqs("user", "nobrl")
SensitiveOptionSeqs == OptionSeqs("pass", "token")

\* What the callers of Mount pass for fstype and options.
FsTypes == {"", "cifs"}
LinkOptionSeqs == {<<>>, <<"bind">>}

\* The paths, of those that the callers pass, that name what a call on path
\* works with: the path itself and its parent directory.
Nearby(path) ==
    {p \in Paths : normalizeWindowsPath(p) \in
                      {normalizeWindowsPath(path), normalizeWindowsPath(Dir(path))}}

\* The requests of other callers that change what a call on path works
\* with.  The other callers call the same methods with inputs from the same
\* sets: what their Rmdir, Unmount, SMBUnmount and MakeDir send for the path
\* and its parent directory, and what their Mount and SMBMount send for these
\* as targets, their SMBMount with whatever answer it got from the resolver.
\* What they do elsewhere on the node makes no difference to the call.
OtherRequests(h, path) ==
    UNION {{Rmdir(h, p, FALSE).calls[1] : p \in Nearby(path)},
           {MakeDir(h, p, FALSE).calls[1] : p \in Nearby(path)},
           {Mount(h, source, target, "", <<>>, FALSE).calls[1] :
               source \in LinkSources, target \in Targets \cap Nearby(path)},
           {SmbMountRequest(ResolveSource(source, addr), target, <<"user">>, <<"pass">>) :
               source \in Sources, addr \in Resolutions,
               target \in Targets \cap Nearby(path)}}

\* The record of a call: what it was called with, the helper's state when it
\* began (pre), the requests it has sent (calls), the request that failed
\* (fault), how many requests of other callers the helper served while the
\* call was in progress (others), the resolver's answer that the call got
\* (addr), and what it returns.
Call(op, source, target, fstype, mountOptions, sensitiveMountOptions, pre, addr) ==
    [op |-> op, source |-> source, target |-> target, fstype |-> fstype,
     mountOptions |-> mountOptions, sensitiveMountOptions |-> sensitiveMountOptions,
     fault |-> "none", others |-> 0, err |-> "nil", ret |-> FALSE, calls |-> <<>>,
     pre |-> pre, addr |-> addr]

NoCall ==
    Call("none", <<>>, <<>>, "", <<>>, <<>>,
         [dirs |-> {}, links |-> {}, mappings |-> {}], Unresolved)

Init ==
    /\ helper = [dirs |-> {Root}, links |-> {}, mappings |-> {}]
    /\ dns \in Resolutions
    /\ pc = "idle"
    /\ last = NoCall
    /\ cycles = 0
    /\ arg = <<>>
    /\ res = <<>>

\* The call takes its next piece, step, in which the request of the given
\* kind fails when fail says so; only a request that is sent can fail.
Advances(call, step, fail, kind) ==
    /\ fail => step.calls # <<>>
    /\ pc' = step.to
    /\ helper' = step.fs
    /\ last' = [call EXCEPT !.calls = @ \o step.calls,
                            !.err = step.err,
                            !.ret = step.ret,
                            !.fault = IF fail THEN kind ELSE @]

\* The call op(source, target, fstype, ...), which sends one request at
\* most, returns with outcome out.
ReturnsOf(op, source, target, fstype, mountOptions, sensitiveMountOptions, fault, out) ==
    /\ pc' = "returned"
    /\ helper' = out.fs
    /\ last' = [Call(op, source, target, fstype, mountOptions,
                     sensitiveMountOptions, helper, dns)
                   EXCEPT !.fault = fault, !.err = out.err, !.ret = out.ret,
                          !.calls = out.calls]
    /\ dns' = dns
    /\ UNCHANGED aside

\* The same for the calls that take no fstype.
Returns(op, source, target, mountOptions, sensitiveMountOptions, fault, out) ==
    ReturnsOf(op, source, target, "", mountOptions, sensitiveMountOptions, fault, out)

\* Lines 55-67: SMBMount is called, checks its options and looks the parent
\* directory up.
SMBMountCall ==
    /\ pc = "idle"
    /\ \E source \in Sources, target \in Targets, mountOptions \in MountOptionSeqs,
          sensitiveMountOptions \in SensitiveOptionSeqs, fail \in BOOLEAN :
         Advances(Call("SMBMount", source, target, "", mountOptions,
                       sensitiveMountOptions, helper, Unresolved),
                  SMBMountStart(helper, target, mountOptions, sensitiveMountOptions,
                                fail),
                  fail, "PathExists")
    /\ UNCHANGED <<dns, cycles, aside>>

\* Lines 68-73: the call in progress creates the parent directory.
SMBMountMakesDir ==
    /\ pc = "checked"
    /\ \E fail \in BOOLEAN :
         Advances(last, SMBMountParent(helper, last.target, fail), fail, "Mkdir")
    /\ UNCHANGED <<dns, cycles, aside>>

\* Lines 75-79: the host of the source is cluster-internal, and the call in
\* progress takes the resolver's answer for it.
SMBMountResolves ==
    /\ pc = "made"
    /\ HostIsClusterInternal(last.source)
    /\ pc' = "resolved"
    /\ last' = [last EXCEPT !.addr = dns]
    /\ UNCHANGED <<helper, dns, cycles, aside>>

\* Lines 84-97: the call in progress requests the mapping, with the answer
\* it took from the resolver; for a host that is not cluster-internal the
\* resolver was not asked.
SMBMountMaps ==
    /\ pc = "resolved" \/ (pc = "made" /\ ~HostIsClusterInternal(last.source))
    /\ \E fail \in BOOLEAN :
         Advances(last,
                  SMBMountMapping(helper, last.addr, last.source, last.target,
                                  last.mountOptions, last.sensitiveMountOptions, fail),
                  fail, "NewSmbGlobalMapping")
    /\ UNCHANGED <<dns, cycles, aside>>

\* Lines 96, 98: the call in progress returns what the mapping request gave.
SMBMountReturns ==
    /\ pc = "mapped"
    /\ pc' = "returned"
    /\ UNCHANGED <<helper, dns, last, cycles, aside>>

SMBUnmountCall ==
    /\ pc = "idle"
    /\ \E target \in Targets, fail \in BOOLEAN :
         Returns("SMBUnmount", <<>>, target, <<>>, <<>>,
                 IF fail THEN "Rmdir" ELSE "none", SMBUnmount(helper, target, fail))
    /\ cycles' = cycles

MountCall ==
    /\ pc = "idle"
    /\ \E source \in LinkSources, target \in Targets, fstype \in FsTypes,
          options \in LinkOptionSeqs, fail \in BOOLEAN :
         ReturnsOf("Mount", source, target, fstype, options, <<>>,
                   IF fail THEN "LinkPath" ELSE "none",
                   Mount(helper, source, target, fstype, options, fail))
    /\ cycles' = cycles

UnmountCall ==
    /\ pc = "idle"
    /\ \E target \in Paths, fail \in BOOLEAN :
         Returns("Unmount", <<>>, target, <<>>, <<>>,
                 IF fail THEN "Rmdir" ELSE "none", Unmount(helper, target, fail))
    /\ cycles' = cycles

RmdirCall ==
    /\ pc = "idle"
    /\ \E path \in Paths, fail \in BOOLEAN :
         Returns("Rmdir", <<>>, path, <<>>, <<>>,
                 IF fail THEN "Rmdir" ELSE "none", Rmdir(helper, path, fail))
    /\ cycles' = cycles

MakeDirCall ==
    /\ pc = "idle"
    /\ \E path \in Paths, fail \in BOOLEAN :
         Returns("MakeDir", <<>>, path, <<>>, <<>>,
                 IF fail THEN "Mkdir" ELSE "none", MakeDir(helper, path, fail))
    /\ cycles' = cycles

ExistsPathCall ==
    /\ pc = "idle"
    /\ \E path \in Paths, fail \in BOOLEAN :
         Returns("ExistsPath", <<>>, path, <<>>, <<>>,
                 IF fail THEN "PathExists" ELSE "none", ExistsPath(helper, path, fail))
    /\ cycles' = cycles

\* Lines 163-171: IsLikelyNotMountPoint is called for path and looks it up.
Asked(path) ==
    \E fail \in BOOLEAN :
        Advances(Call("IsLikelyNotMountPoint", <<>>, path, "", <<>>, <<>>, helper, dns),
                 IsLikelyNotMountPointStart(helper, path, fail), fail, "PathExists")

\* Lines 173-180: the call in progress asks whether the path is a mount
\* point, and returns.
Answered ==
    \E fail \in BOOLEAN :
        Advances(last, IsLikelyNotMountPointAsk(helper, last.target, fail),
                 fail, "IsMountPoint")

IsLikelyNotMountPointCall ==
    /\ pc = "idle"
    /\ \E path \in Paths : Asked(path)
    /\ UNCHANGED <<dns, cycles, aside>>

IsLikelyNotMountPointAsks ==
    /\ pc = "exists"
    /\ Answered
    /\ UNCHANGED <<dns, cycles, aside>>

ListCall ==
    /\ pc = "idle"
    /\ Returns("List", <<>>, <<>>, <<>>, <<>>, "none", List(helper))
    /\ cycles' = cycles

PathProbeCall ==
    /\ pc = "idle"
    /\ \E op \in PathProbes, path \in Targets :
         Returns(op, <<>>, path, <<>>, <<>>, "none", PathProbe(op, helper, path))
    /\ cycles' = cycles

MountSensitiveCall ==
    /\ pc = "idle"
    /\ \E source \in LinkSources, target \in Targets :
         Returns("MountSensitive", source, target, <<"nobrl">>, <<"pass">>, "none",
                 MountSensitive(helper, source, target, "", <<"nobrl">>, <<"pass">>))
    /\ cycles' = cycles

MountSensitiveWithoutSystemdCall ==
    /\ pc = "idle"
    /\ \E source \in LinkSources, target \in Targets :
         Returns("MountSensitiveWithoutSystemd", source, target, <<"nobrl">>,
                 <<"pass">>, "none",
                 MountSensitiveWithoutSystemd(helper, source, target, "",
                                              <<"nobrl">>, <<"pass">>))
    /\ cycles' = cycles

\* The caller takes the result; the call's record is discarded.
Return ==
    /\ pc = "returned"
    /\ pc' = "idle"
    /\ last' = NoCall
    /\ UNCHANGED <<helper, dns, cycles, aside>>

\* While a call is in progress, the helper serves a request of another
\* caller that changes what the call works with; a removal by hand does
\* what another caller's Rmdir does.
OtherRequest ==
    /\ pc \in InProgress
    /\ last.others < MaxMeanwhile
    /\ \E req \in OtherRequests(helper, last.target) :
         /\ Serve(helper, req) # helper
         /\ helper' = Serve(helper, req)
    /\ last' = [last EXCEPT !.others = @ + 1]
    /\ UNCHANGED <<dns, pc, cycles, aside>>

\* Someone removes a directory behind the mounter's back.
ExternalRemove ==
    /\ pc = "idle"
    /\ \E p \in helper.dirs \ {Root} : helper' = HelperRmdir(helper, p)
    /\ UNCHANGED <<dns, pc, last, cycles, aside>>

\* Name resolution starts or stops working, at any time.
ResolverChange ==
    /\ \E a \in Resolutions \ {dns} : dns' = a
    /\ UNCHANGED <<helper, pc, last, cycles, aside>>

Next ==
    \/ SMBMountCall
    \/ SMBMountMakesDir
    \/ SMBMountResolves
    \/ SMBMountMaps
    \/ SMBMountReturns
    \/ SMBUnmountCall
    \/ MountCall
    \/ UnmountCall
    \/ RmdirCall
    \/ MakeDirCall
    \/ ExistsPathCall
    \/ IsLikelyNotMountPointCall
    \/ IsLikelyNotMountPointAsks
    \/ ListCall
    \/ PathProbeCall
    \/ MountSensitiveCall
    \/ MountSensitiveWithoutSystemdCall
    \/ Return
    \/ OtherRequest
    \/ ExternalRemove
    \/ ResolverChange

Spec == Init /\ [][Next]_vars

(***************************************************************************)
(* What the properties below read off a returned call.                     *)
(***************************************************************************)
Returned(op) == pc = "returned" /\ last.op = op

\* A string with every "/" turned into "\", character by character.
BackslashForm(s) == [k \in 1..Len(s) |-> IF s[k] = "/" THEN "\\" ELSE s[k]]

\* The first place where sub occurs in s (s contains sub).
FirstIndex(s, sub) ==
    CHOOSE i \in 1..Len(s) :
        /\ SubSeq(s, i, i + Len(sub) - 1) = sub
        /\ \A j \in 1..(i - 1) : SubSeq(s, j, j + Len(sub) - 1) # sub

RequestsOfKind(calls, k) == {calls[i] : i \in OfKind(calls, k)}

HasValidOptions == Len(last.mountOptions) > 0 /\ Len(last.sensitiveMountOptions) > 0

\* The parent directory of the last call's target, as the helper names it.
LastParent == normalizeWindowsPath(Dir(last.target))

\* The last SMBMount call got as far as its mapping request: its options
\* were valid and neither PathExists nor a needed Mkdir failed.
ReachedMapping ==
    /\ HasValidOptions
    /\ last.fault \notin {"PathExists", "Mkdir"}

\* C1: SMBMount called with an empty mountOptions or an empty
\* sensitiveMountOptions returns InvalidArgument, sends no request to the
\* helper and leaves the helper's state as it was, whatever the source, the
\* target and the helper's state.
C1_EmptyOptionsRejected ==
    (Returned("SMBMount") /\ ~HasValidOptions) =>
        /\ last.err = "InvalidArgument"
        /\ last.calls = <<>>
        /\ helper = last.pre

\* C1 witness: a call with credentials but no sensitive options, on a node
\* that already has a mapping, was rejected.
C1_Witness ==
    /\ Returned("SMBMount")
    /\ last.mountOptions = <<"user">>
    /\ last.sensitiveMountOptions = <<>>
    /\ last.err = "InvalidArgument"
    /\ last.pre.mappings # {}

\* C2 as claimed: when the host of the source is cluster-internal and
\* resolves, the remote path of the mapping request holds no occurrence of
\* the host name any more.
C2_EveryOccurrenceReplaced ==
    (Returned("SMBMount") /\ HostIsClusterInternal(last.source)
        /\ last.addr # Unresolved) =>
        \A req \in RequestsOfKind(last.calls, "NewSmbGlobalMapping") :
            ~Contains(req.remotePath, SourceParts(last.source)[1])

\* C2 as amended: when the host of the source is cluster-internal and
\* resolves, the remote path of the mapping request is the source with the
\* first occurrence of the host name (the host itself) replaced by the
\* address and every later occurrence kept, slashes converted.
C2_FirstOccurrenceReplaced ==
    (Returned("SMBMount") /\ HostIsClusterInternal(last.source)
        /\ last.addr # Unresolved) =>
        LET host == SourceParts(last.source)[1]
            i == FirstIndex(last.source, host)
            expected == SubSeq(last.source, 1, i - 1) \o last.addr
                          \o SubSeq(last.source, i + Len(host), Len(last.source))
        IN  \A req \in RequestsOfKind(last.calls, "NewSmbGlobalMapping") :
                req.remotePath = BackslashForm(expected)

\* C2 witness: a mount of the source that names its host twice succeeded
\* with the name resolved, and the mapped remote path still holds the name.
C2_Witness ==
    /\ Returned("SMBMount")
    /\ last.source = SourceInternal
    /\ last.addr = Address
    /\ last.err = "nil"
    /\ \E r \in helper.mappings : HasPrefix(r, <<"\\", "\\">> \o Address)
                                    /\ Contains(r, InternalHost)

\* C3: when the host of the source is cluster-internal and does not
\* resolve, a call that got as far as the mapping sends exactly one mapping
\* request, whose remote path is the source with only its slashes converted,
\* and returns MountFailed if that request failed and no error otherwise.
C3_ResolutionFailureNotFatal ==
    (Returned("SMBMount") /\ HostIsClusterInternal(last.source)
        /\ last.addr = Unresolved /\ ReachedMapping) =>
        /\ Cardinality(OfKind(last.calls, "NewSmbGlobalMapping")) = 1
        /\ \A req \in RequestsOfKind(last.calls, "NewSmbGlobalMapping") :
               req.remotePath = BackslashForm(last.source)
        /\ last.err = IF last.fault = "NewSmbGlobalMapping" THEN "MountFailed" ELSE "nil"

\* C3 witness: a mount of a cluster-internal source succeeded although the
\* name did not resolve, and the node has the mapping under the host name.
C3_Witness ==
    /\ Returned("SMBMount")
    /\ last.source = SourceInternal
    /\ last.addr = Unresolved
    /\ last.err = "nil"
    /\ BackslashForm(SourceInternal) \in helper.mappings
    /\ BackslashForm(SourceInternal) \notin last.pre.mappings

\* C4: when no helper request fails, IsLikelyNotMountPoint returns
\* (true, NotFound) for a path that does not exist, without asking
\* IsMountPoint; (true, nil) for an existing path that the helper reports
\* as no mount point; (false, nil) for an existing path that the helper
\* reports as a mount point.  The path exists when PathExists is asked, at
\* the start of the call; the helper reports on it when IsMountPoint is
\* asked, after the requests of other callers that it served in between.
C4_QueryAnswers ==
    (Returned("IsLikelyNotMountPoint") /\ last.fault = "none") =>
        LET p == normalizeWindowsPath(last.target)
            exists == p \in last.pre.dirs
            mounted == HelperIsMountPoint(helper, p)
        IN  /\ ~exists => /\ last.ret = TRUE
                          /\ last.err = "NotFound"
                          /\ OfKind(last.calls, "IsMountPoint") = {}
            /\ (exists /\ ~mounted) => (last.ret = TRUE /\ last.err = "nil")
            /\ (exists /\ mounted) => (last.ret = FALSE /\ last.err = "nil")

\* C4 witness: the query of an SMB mount point answered (false, nil).
C4_Witness ==
    /\ Returned("IsLikelyNotMountPoint")
    /\ last.fault = "none"
    /\ last.others = 0
    /\ \E l \in last.pre.links :
          l[1] = normalizeWindowsPath(last.target) /\ l[2] \in last.pre.mappings
    /\ last.ret = FALSE
    /\ last.err = "nil"

\* The last call made again right after it returned, the helper answering
\* and the resolver answering addr, is idempotent: it succeeds, sends no
\* Mkdir and no IsMountPoint, and leaves the helper's directories, mount
\* points and mappings as they are.
AgainIdempotent(addr) ==
    LET again == SMBMount(helper, addr, last.source, last.target,
                          last.mountOptions, last.sensitiveMountOptions, "none")
    IN  /\ again.err = "nil"
        /\ OfKind(again.calls, "Mkdir") = {}
        /\ OfKind(again.calls, "IsMountPoint") = {}
        /\ again.fs = helper

SMBUnmountCycle ==
    /\ pc = "idle"
    /\ \E target \in Targets, fail \in BOOLEAN :
         LET out == SMBUnmount(helper, target, fail)
             mounted == \E l \in helper.links :
                           l[1] = normalizeWindowsPath(target) /\ l[2] \in helper.mappings
         IN  /\ Returns("SMBUnmount", <<>>, target, <<>>, <<>>,
                        IF fail THEN "Rmdir" ELSE "none", out)
             /\ cycles' = IF out.err = "nil" /\ mounted /\ cycles < MaxCycles
                          THEN cycles + 1 ELSE cycles

LifeNext ==
    \/ SMBMountCall
    \/ SMBMountMakesDir
    \/ SMBMountResolves
    \/ SMBMountMaps
    \/ SMBMountReturns
    \/ SMBUnmountCycle
    \/ Return
    \/ OtherRequest
    \/ ResolverChange

LifeSpec == Init /\ [][LifeNext]_vars

\* C6: with calls made one at a time and nobody else touching the node
\* during them, IsLikelyNotMountPoint of the target right after a successful
\* SMBMount answers (false, nil), and right after a successful SMBUnmount
\* answers (true, NotFound), in every cycle.
C6_Lifecycle ==
    LET query == IsLikelyNotMountPoint(helper, last.target, "none")
    IN  /\ (Returned("SMBMount") /\ last.err = "nil" /\ last.others = 0) =>
               (query.ret = FALSE /\ query.err = "nil")
        /\ (Returned("SMBUnmount") /\ last.err = "nil") =>
               (query.ret = TRUE /\ query.err = "NotFound")

\* C6 witness: after MaxCycles completed mount/unmount cycles, a target that
\* was absent has been mounted once more.
C6_Witness ==
    /\ cycles = MaxCycles
    /\ cycles >= 2
    /\ Returned("SMBMount")
    /\ last.err = "nil"
    /\ last.others = 0
    /\ normalizeWindowsPath(last.target) \notin last.pre.dirs
    /\ \E l \in helper.links : l[1] = normalizeWindowsPath(last.target)

\* C7: SMBUnmount sends exactly one request, a forced pod-scoped Rmdir of
\* the target, with no existence check, and returns what the helper
\* answers; on a target that does not exist it succeeds and changes nothing;
\* and after a successful SMBUnmount the same call again succeeds too.
C7_UnmountOfAbsentSucceeds ==
    Returned("SMBUnmount") =>
        LET p == normalizeWindowsPath(last.target)
            again == SMBUnmount(helper, last.target, FALSE)
        IN  /\ last.calls = <<RmdirRequest(p, "POD", TRUE)>>
            /\ last.err = IF last.fault = "Rmdir" THEN "HelperError" ELSE "nil"
            /\ (p \notin last.pre.dirs /\ last.fault = "none") =>
                   (last.err = "nil" /\ helper = last.pre)
            /\ last.err = "nil" => (again.err = "nil" /\ again.fs = helper)

\* C7 witness: SMBUnmount of a target that did not exist, under a parent
\* that did not exist either, succeeded.
C7_Witness ==
    /\ Returned("SMBUnmount")
    /\ normalizeWindowsPath(last.target) \notin last.pre.dirs
    /\ LastParent \notin last.pre.dirs
    /\ last.pre.mappings # {}
    /\ last.err = "nil"

\* C8: no step ever removes a share mapping, and SMBUnmount and Unmount send
\* nothing but an Rmdir of their target.
C8_MappingsNeverShrink ==
    [][/\ helper.mappings \subseteq helper'.mappings
       /\ (pc' = "returned" /\ last'.op \in {"SMBUnmount", "Unmount"}) =>
              \A i \in 1..Len(last'.calls) :
                  /\ last'.calls[i].kind = "Rmdir"
                  /\ last'.calls[i].path = normalizeWindowsPath(last'.target)]_vars

\* C8 witness: SMBUnmount removed the last mount point of a mapping, and the
\* mapping is still there.
C8_Witness ==
    /\ Returned("SMBUnmount")
    /\ last.err = "nil"
    /\ \E l \in last.pre.links :
          /\ l[1] = normalizeWindowsPath(last.target)
          /\ l[2] \in helper.mappings
          /\ \A k \in helper.links : k[2] # l[2]

\* C9: no call sends a request of one kind twice, and a call whose request
\* failed returns an error; SMBMount sends no Rmdir, returns MountFailed when
\* its mapping request failed, and a parent directory it created is still
\* there when it returns, when the helper served no request of another
\* caller in the meantime.
C9_NoRetryNoRollback ==
    pc = "returned" =>
        /\ \A k \in {"PathExists", "Mkdir", "Rmdir", "IsMountPoint", "LinkPath",
                     "NewSmbGlobalMapping"} : Cardinality(OfKind(last.calls, k)) <= 1
        /\ (last.fault # "none" /\ OfKind(last.calls, last.fault) # {}) =>
               last.err # "nil"
        /\ last.op = "SMBMount" =>
              /\ OfKind(last.calls, "Rmdir") = {}
              /\ (last.fault = "NewSmbGlobalMapping" /\ ReachedMapping) =>
                     (last.err = "MountFailed"
                        /\ OfKind(last.calls, "NewSmbGlobalMapping") # {})
              /\ (/\ OfKind(last.calls, "Mkdir") # {}
                  /\ last.fault # "Mkdir"
                  /\ last.others = 0) =>
                     LastParent \in helper.dirs

\* C9 witness: SMBMount created the parent directory, its mapping request
\* failed, and the directory is there after the failure.
C9_Witness ==
    /\ Returned("SMBMount")
    /\ last.err = "MountFailed"
    /\ last.others = 0
    /\ OfKind(last.calls, "Mkdir") # {}
    /\ LastParent \notin last.pre.dirs
    /\ LastParent \in helper.dirs
    /\ helper.mappings = last.pre.mappings

\* C10: a successful SMBMount whose parent directory existed and whose host
\* is not cluster-internal sends two requests: PathExists of the normalized
\* parent, then the mapping of the normalized target to the source with its
\* slashes converted and nothing put in front, with the first mount option
\* as user name and the first sensitive option as password.  For the target
\* /m/s these paths are c:\m and c:\m\s.
C10_SuccessPathRequests ==
    (Returned("SMBMount") /\ last.err = "nil" /\ LastParent \in last.pre.dirs
        /\ ~HostIsClusterInternal(last.source)) =>
        /\ last.calls =
              <<PathExistsRequest(normalizeWindowsPath(Dir(last.target))),
                NewSmbGlobalMappingRequest(normalizeWindowsPath(last.target),
                                           BackslashForm(last.source),
                                           last.mountOptions[1],
                                           last.sensitiveMountOptions[1])>>
        /\ last.target = TargetSlash =>
              /\ last.calls[1].path = <<"c", ":", "\\", "m">>
              /\ last.calls[2].localPath = <<"c", ":", "\\", "m", "\\", "s">>
        /\ last.source = SourceExternal =>
              last.calls[2].remotePath = <<"\\", "\\", "h", "\\", "x">>

\* C10 witness: such a call with more than one option in each sequence.
C10_Witness ==
    /\ Returned("SMBMount")
    /\ last.err = "nil"
    /\ last.source = SourceExternal
    /\ last.target = TargetSlash
    /\ LastParent \in last.pre.dirs
    /\ Len(last.mountOptions) > 1
    /\ Len(last.sensitiveMountOptions) > 1
    /\ Len(last.calls) = 2

(***************************************************************************)
(* normalizeWindowsPath on its own: every path string of up to MaxPathLen  *)
(* characters is normalized, and the result is normalized again.           *)
(***************************************************************************)
PathChars == {"/", "\\", "c", ":", "m"}

PathStrings == UNION {[1..n -> PathChars] : n \in 0..MaxPathLen}

NormInit ==
    /\ helper = [dirs |-> {Root}, links |-> {}, mappings |-> {}]
    /\ dns = Unresolved
    /\ pc = "idle"
    /\ last = NoCall
    /\ cycles = 0
    /\ arg \in PathStrings
    /\ res = <<>>

NormalizeArg ==
    /\ Len(res) = 0
    /\ res' = <<normalizeWindowsPath(arg)>>
    /\ UNCHANGED <<helper, dns, pc, last, cycles, arg>>

NormalizeResult ==
    /\ Len(res) = 1
    /\ res' = Append(res, normalizeWindowsPath(res[1]))
    /\ UNCHANGED <<helper, dns, pc, last, cycles, arg>>

NormNext == NormalizeArg \/ NormalizeResult

NormSpec == NormInit /\ [][NormNext]_vars

\* C11: normalizeWindowsPath gives a result for every path string; the
\* result holds no "/" and never begins with "\"; for a path that begins
\* with "/" it begins with c:\ ; and normalizing the result changes nothing.
C11_NormalizeIdempotent ==
    /\ Len(res) >= 1 =>
          /\ "/" \notin Chars(res[1])
          /\ Len(res[1]) = (IF Len(arg) > 0 /\ arg[1] \in {"/", "\\"}
                            THEN Len(arg) + 2 ELSE Len(arg))
          /\ (Len(res[1]) > 0 => res[1][1] # "\\")
          /\ (Len(arg) > 0 /\ arg[1] = "/") =>
                 (Len(res[1]) >= 3 /\ SubSeq(res[1], 1, 3) = <<"c", ":", "\\">>)
    /\ Len(res) = 2 => res[2] = res[1]

\* C11 witness: a root-relative path with a second slash has been
\* normalized twice.
C11_Witness ==
    /\ arg = <<"/", "m", "/", "c">>
    /\ res = <<<<"c", ":", "\\", "m", "\\", "c">>, <<"c", ":", "\\", "m", "\\", "c">>>>

\* The methods that CSIProxyMounter does not implement.
UnsupportedOps ==
    PathProbes \cup {"List", "MountSensitive", "MountSensitiveWithoutSystemd"}

\* C12: a call of a method that is not implemented (the device queries,
\* EvalHostSymlinks, GetFSGroup, GetSELinuxSupport, GetMode, MountSensitive,
\* MountSensitiveWithoutSystemd, List, GetMountRefs, MakeRShared, MakeFile)
\* returns the NotImplemented error in every state, never success, sends no
\* request to the helper and leaves its state alone.
C12_UnsupportedFailFast ==
    (pc = "returned" /\ last.op \in UnsupportedOps) =>
        /\ last.err = "NotImplemented"
        /\ last.calls = <<>>
        /\ helper = last.pre

\* C12 witness: MountSensitive, called on a node with a mounted share for a
\* target that does not exist, returned NotImplemented.
C12_Witness ==
    /\ Returned("MountSensitive")
    /\ last.err = "NotImplemented"
    /\ last.pre.mappings # {}
    /\ normalizeWindowsPath(last.target) \notin helper.dirs
    /\ normalizeWindowsPath(last.source) \in helper.dirs

\* C13: the requests of an SMBMount call with valid options come in a fixed
\* order and stop at the first failure.  PathExists of the parent directory
\* is always the first request, and the only one of its kind.  Mkdir of the
\* parent is sent exactly when PathExists succeeded and answered false, and
\* then second.  The mapping request is sent exactly when PathExists
\* succeeded and the parent existed or Mkdir succeeded, and then last.  When
\* PathExists fails the call returns PrecheckFailed and sends nothing else;
\* when Mkdir fails the call returns PrerequisiteCreationFailed and sends no
\* mapping request.
C13_RequestOrder ==
    (Returned("SMBMount") /\ HasValidOptions) =>
        LET calls == last.calls
            parent == LastParent
            existed == HelperPathExists(last.pre, parent)
            checked == last.fault # "PathExists"
            mkdirs == OfKind(calls, "Mkdir")
            mappings == OfKind(calls, "NewSmbGlobalMapping")
        IN  /\ Len(calls) >= 1
            /\ calls[1] = PathExistsRequest(parent)
            /\ OfKind(calls, "PathExists") = {1}
            /\ (mkdirs # {}) <=> (checked /\ ~existed)
            /\ mkdirs \subseteq {2}
            /\ \A i \in mkdirs : calls[i].path = parent
            /\ (mappings # {}) <=> (checked /\ (existed \/ last.fault # "Mkdir"))
            /\ mappings \subseteq {Len(calls)}
            /\ \A i \in mappings : \A j \in mkdirs : j < i
            /\ ~checked => (last.err = "PrecheckFailed" /\ Len(calls) = 1)
            /\ (checked /\ ~existed /\ last.fault = "Mkdir") =>
                   (last.err = "PrerequisiteCreationFailed" /\ Len(calls) = 2)
            /\ \A i \in 1..Len(calls) :
                   calls[i].kind \in {"PathExists", "Mkdir", "NewSmbGlobalMapping"}

\* C13 witness: the parent directory was missing and its creation failed;
\* the call sent PathExists and Mkdir and stopped there.
C13_Witness ==
    /\ Returned("SMBMount")
    /\ HasValidOptions
    /\ ~HelperPathExists(last.pre, LastParent)
    /\ last.fault = "Mkdir"
    /\ last.err = "PrerequisiteCreationFailed"
    /\ Len(last.calls) = 2
    /\ last.calls[2].kind = "Mkdir"

(***************************************************************************)
(* Repeated queries of one path.  arg is the path; res keeps the last two  *)
(* answers of IsLikelyNotMountPoint for it, each with the request that     *)
(* failed and with what the path was in the helper when the call looked it *)
(* up (status) and when the call returned, which for a call that asked     *)
(* IsMountPoint is when it asked (later).  Between the queries, and        *)
(* between the two requests of one query, the path is created, linked and  *)
(* removed, by the mounter's other methods, by other callers and behind    *)
(* its back.                                                               *)
(***************************************************************************)
PathStatus(h, p) ==
    IF ~HelperPathExists(h, p) THEN "absent"
    ELSE IF HelperIsMountPoint(h, p) THEN "mount"
    ELSE "dir"

QueryInit ==
    /\ helper = [dirs |-> {Root}, links |-> {}, mappings |-> {}]
    /\ dns = Unresolved
    /\ pc = "idle"
    /\ last = NoCall
    /\ cycles = 0
    /\ arg \in Targets
    /\ res = <<>>

\* The answer of the call that returns in this step is kept, the last two.
KeepsAnswer ==
    LET answer == [ret |-> last'.ret, err |-> last'.err, fault |-> last'.fault,
                   status |-> PathStatus(last'.pre, normalizeWindowsPath(arg)),
                   later |-> PathStatus(helper', normalizeWindowsPath(arg))]
    IN  res' = IF pc' # "returned" THEN res
               ELSE IF Len(res) < 2 THEN Append(res, answer)
               ELSE <<res[2], answer>>

QueryCall ==
    /\ pc = "idle"
    /\ Asked(arg)
    /\ KeepsAnswer
    /\ UNCHANGED <<dns, cycles, arg>>

QueryAsks ==
    /\ pc = "exists"
    /\ Answered
    /\ KeepsAnswer
    /\ UNCHANGED <<dns, cycles, arg>>

QueryNext ==
    \/ QueryCall
    \/ QueryAsks
    \/ MakeDirCall
    \/ MountCall
    \/ RmdirCall
    \/ Return
    \/ OtherRequest
    \/ ExternalRemove

QuerySpec == QueryInit /\ [][QueryNext]_vars

\* C14: IsLikelyNotMountPoint only observes, and keeps nothing between
\* calls.  A call sends PathExists first and at most one IsMountPoint, never
\* Mkdir, Rmdir, LinkPath or a mapping request, and changes nothing in the
\* helper's state: when the helper served no request of another caller while
\* the call was in progress, its state at the return is the one the call
\* began in.  Every call asks the helper again: each answer, when no request
\* failed, is the one that the helper's state at the time of that call's
\* requests gives, whatever the call before answered.
C14_QueryObserves ==
    /\ Returned("IsLikelyNotMountPoint") =>
          /\ \A i \in 1..Len(last.calls) :
                last.calls[i].kind \in {"PathExists", "IsMountPoint"}
          /\ Cardinality(OfKind(last.calls, "IsMountPoint")) <= 1
          /\ Len(last.calls) >= 1
          /\ last.calls[1] = PathExistsRequest(normalizeWindowsPath(last.target))
          /\ OfKind(last.calls, "PathExists") = {1}
          /\ last.others = 0 => helper = last.pre
          /\ Len(res) >= 1
          /\ res[Len(res)].ret = last.ret
          /\ res[Len(res)].err = last.err
    /\ \A k \in 1..Len(res) :
          res[k].fault = "none" =>
             /\ res[k].status = "absent" => (res[k].ret /\ res[k].err = "NotFound")
             /\ (res[k].status # "absent" /\ res[k].later # "mount") =>
                    (res[k].ret /\ res[k].err = "nil")
             /\ (res[k].status # "absent" /\ res[k].later = "mount") =>
                    (~res[k].ret /\ res[k].err = "nil")

\* C14 witness: the path was a mount point when it was queried, was then
\* removed, and the next query answered that nothing is there.
C14_Witness ==
    /\ Returned("IsLikelyNotMountPoint")
    /\ Len(res) = 2
    /\ res[1] = [ret |-> FALSE, err |-> "nil", fault |-> "none",
                 status |-> "mount", later |-> "mount"]
    /\ res[2] = [ret |-> TRUE, err |-> "NotFound", fault |-> "none",
                 status |-> "absent", later |-> "absent"]
    /\ last.calls = <<PathExistsRequest(normalizeWindowsPath(arg))>>

\* A path in the form the helper takes: no forward slash, and not starting
\* with the separator.
IsHelperPath(p) == "/" \notin Chars(p) /\ (Len(p) > 0 => p[1] # "\\")

\* C15: every local path that goes to the helper is normalized.  The path of
\* every PathExists, Mkdir, Rmdir and IsMountPoint request, both paths of
\* every LinkPath request and the local path of every mapping request are
\* normalizeWindowsPath of the path the caller gave (of its parent directory
\* for the PathExists and Mkdir of SMBMount); so they hold no forward slash
\* and do not start with the separator.  The remote path of a mapping request
\* is the source with its slashes turned, and gets no drive in front.
C15_LocalPathsNormalized ==
    pc = "returned" =>
        LET given == IF last.op = "SMBMount" THEN Dir(last.target) ELSE last.target
            path == normalizeWindowsPath(given)
            sourcePath == normalizeWindowsPath(last.source)
            targetPath == normalizeWindowsPath(last.target)
            resolved == ResolveSource(last.source, last.addr)
        IN  \A i \in 1..Len(last.calls) :
                LET req == last.calls[i]
                IN  /\ req.kind \in {"PathExists", "Mkdir", "Rmdir", "IsMountPoint"} =>
                          /\ req.path = path
                          /\ IsHelperPath(req.path)
                    /\ req.kind = "LinkPath" =>
                          /\ req.sourcePath = sourcePath
                          /\ req.targetPath = targetPath
                          /\ IsHelperPath(req.sourcePath)
                          /\ IsHelperPath(req.targetPath)
                    /\ req.kind = "NewSmbGlobalMapping" =>
                          /\ req.localPath = targetPath
                          /\ IsHelperPath(req.localPath)
                          /\ req.remotePath = BackslashForm(resolved)
                          /\ req.remotePath # normalizeWindowsPath(resolved)
                          /\ ~HasPrefix(req.remotePath, DefaultDrive)
                          /\ ~IsHelperPath(req.remotePath)

\* C15 witness: SMBUnmount of a target written with forward slashes and no
\* drive sent Rmdir for the normalized path, which differs from the one given.
C15_Witness ==
    /\ Returned("SMBUnmount")
    /\ last.target = TargetSlash
    /\ ~IsHelperPath(last.target)
    /\ Len(last.calls) = 1
    /\ last.calls[1].kind = "Rmdir"
    /\ last.calls[1].path = normalizeWindowsPath(TargetSlash)
    /\ last.calls[1].path # last.target
    /\ last.pre # helper

\* C16: every Mkdir request, from MakeDir itself or from SMBMount creating
\* the parent directory, carries the PLUGIN context; every Rmdir request,
\* from Rmdir, Unmount or SMBUnmount, carries the POD context and force =
\* true.  Only MakeDir and SMBMount send Mkdir, only Rmdir, Unmount and
\* SMBUnmount send Rmdir.
C16_ScopeTagging ==
    pc = "returned" =>
        /\ \A req \in RequestsOfKind(last.calls, "Mkdir") :
              /\ req.context = "PLUGIN"
              /\ last.op \in {"MakeDir", "SMBMount"}
        /\ \A req \in RequestsOfKind(last.calls, "Rmdir") :
              /\ req.context = "POD"
              /\ req.force = TRUE
              /\ last.op \in {"Rmdir", "Unmount", "SMBUnmount"}
        /\ last.op = "MakeDir" => Cardinality(OfKind(last.calls, "Mkdir")) = 1
        /\ last.op \in {"Rmdir", "Unmount", "SMBUnmount"} =>
              Cardinality(OfKind(last.calls, "Rmdir")) = 1

\* C16 witness: on a node that has had a share mapped, an SMBMount created
\* the missing parent directory with a Mkdir request in the PLUGIN context.
C16_Witness ==
    /\ Returned("SMBMount")
    /\ last.pre.mappings # {}
    /\ LastParent \notin last.pre.dirs
    /\ last.err = "nil"
    /\ \E req \in RequestsOfKind(last.calls, "Mkdir") :
          req = MkdirRequest(LastParent, "PLUGIN")

\* C17: nothing orders an SMBMount against what other callers request for
\* the same target, an SMBUnmount or a removal among it, and SMBMount is not
\* atomic.  When the helper served no request of another caller for the
\* target or its parent directory while the call was in progress (the
\* callers took turns on the target), the call sent the requests and gave
\* the result that SMBMount does in one piece, and a call that returned
\* success left the target a mount point that exists.  Only when such a
\* request came between the call's requests, or before its return, can a
\* call have returned success with the target gone.
C17_SerializedMountHolds ==
    Returned("SMBMount") =>
        LET whole == SMBMount(last.pre, last.addr, last.source, last.target,
                              last.mountOptions, last.sensitiveMountOptions,
                              last.fault)
            t == normalizeWindowsPath(last.target)
        IN  /\ last.others = 0 =>
                  /\ helper = whole.fs
                  /\ last.err = whole.err
                  /\ last.calls = whole.calls
                  /\ last.err = "nil" =>
                        (HelperPathExists(helper, t) /\ HelperIsMountPoint(helper, t))
            /\ (last.err = "nil" /\ ~HelperIsMountPoint(helper, t)) => last.others > 0

\* C17 witness: SMBMount returned success, and the target does not exist:
\* another caller's SMBUnmount of the same target was served after the
\* mapping request and before the return.
C17_Witness ==
    /\ Returned("SMBMount")
    /\ last.err = "nil"
    /\ last.others = 1
    /\ ~HelperPathExists(helper, normalizeWindowsPath(last.target))
    /\ ~HelperIsMountPoint(helper, normalizeWindowsPath(last.target))
    /\ HelperPathExists(helper, LastParent)
    /\ last.calls[Len(last.calls)].kind = "NewSmbGlobalMapping"

\* C18: IsLikelyNotMountPoint never answers true when the helper failed.
\* When the PathExists request fails it returns (false, the error) and does
\* not ask IsMountPoint; when the IsMountPoint request fails it returns
\* (false, the error).  So the only error that ever comes with true is
\* NotFound.
C18_NoTrueOnHelperError ==
    Returned("IsLikelyNotMountPoint") =>
        LET asked == OfKind(last.calls, "IsMountPoint") # {}
        IN  /\ last.fault = "PathExists" =>
                  /\ last.ret = FALSE
                  /\ last.err = "HelperError"
                  /\ ~asked
            /\ (last.fault = "IsMountPoint" /\ asked) =>
                  /\ last.ret = FALSE
                  /\ last.err = "HelperError"
            /\ last.err = "HelperError" => last.ret = FALSE
            /\ (last.ret = TRUE /\ last.err # "nil") => last.err = "NotFound"
            /\ last.err \in {"nil", "NotFound", "HelperError"}

\* C18 witness: the path existed, the IsMountPoint request was sent and
\* failed, and the call returned (false, the error).
C18_Witness ==
    /\ Returned("IsLikelyNotMountPoint")
    /\ last.fault = "IsMountPoint"
    /\ HelperPathExists(last.pre, normalizeWindowsPath(last.target))
    /\ Len(last.calls) = 2
    /\ last.calls[2] = IsMountPointRequest(normalizeWindowsPath(last.target))
    /\ last.ret = FALSE
    /\ last.err = "HelperError"

\* C19: Mount sends exactly one request, LinkPath with sourcePath =
\* normalizeWindowsPath(source) and targetPath = normalizeWindowsPath(target),
\* and nothing else: no PathExists, no Mkdir, no mapping request.  It returns
\* what LinkPath returned, nil or the error.  fstype and options play no
\* part: with any other fstype and options the call would have sent the same
\* request and returned the same.
C19_MountLinksOnly ==
    Returned("Mount") =>
        /\ last.calls = <<LinkPathRequest(normalizeWindowsPath(last.source),
                                          normalizeWindowsPath(last.target))>>
        /\ last.err = (IF last.fault = "LinkPath" THEN "HelperError" ELSE "nil")
        /\ helper = (IF last.fault = "LinkPath" THEN last.pre
                     ELSE HelperLinkPath(last.pre, normalizeWindowsPath(last.source),
                                         normalizeWindowsPath(last.target)))
        /\ \A fstype \in FsTypes, options \in LinkOptionSeqs :
              LET other == Mount(last.pre, last.source, last.target, fstype, options,
                                 last.fault = "LinkPath")
              IN  /\ other.calls = last.calls
                  /\ other.err = last.err
                  /\ other.fs = helper

\* C19 witness: Mount, called with an fstype and an option for a target
\* that did not exist, sent its one LinkPath request and returned nil; the
\* target is now a link to the source.
C19_Witness ==
    /\ Returned("Mount")
    /\ last.fstype = "cifs"
    /\ last.mountOptions = <<"bind">>
    /\ last.source # last.target
    /\ last.err = "nil"
    /\ Len(last.calls) = 1
    /\ ~HelperPathExists(last.pre, normalizeWindowsPath(last.target))
    /\ <<normalizeWindowsPath(last.target), normalizeWindowsPath(last.source)>>
          \in helper.links

====
